---- MODULE Spec2Model ----
(***************************************************************************)
(* StudentTeacher (rsl_rl/modules/student_teacher.py): a distillation      *)
(* module that owns a student MLP, a frozen teacher MLP, one observation   *)
(* normalizer per role, a learnable noise parameter, and a checkpoint      *)
(* loader that tells a prior actor-critic checkpoint from a prior          *)
(* distillation checkpoint by substrings of the parameter names.           *)
(*                                                                         *)
(* Every public method is one atomic action taken from the idle state; it  *)
(* records its arguments, its outcome and the state it started from, and   *)
(* the caller then takes the result (Return) before the next call.  The    *)
(* read-only properties action_mean and action_std are state functions.    *)
(*                                                                         *)
(* Tensors are abstracted to integers: 0 is the value a tensor has after   *)
(* construction, the values of CkptValues are what a checkpoint carries.   *)
(* Parameter names are kept as text (sequences of characters) wherever the *)
(* code inspects them.                                                     *)
(***************************************************************************)
EXTENDS Integers, Sequences, FiniteSets, TLC

VARIABLES
    student_obs_normalization,  \* constructor flag (line 56)
    teacher_obs_normalization,  \* constructor flag (line 69)
    noise_std_type,             \* "scalar" or "log" (line 78)
    params,                     \* the module's state_dict(): name -> tensor
    training,                   \* nn.Module.training of the module and its children
    loaded_teacher,             \* provenance flag (line 39)
    distribution,               \* stored action distribution (line 87, 120)
    call,                       \* the call that has just run, [op |-> "none"] when idle
    ret,                        \* its outcome: a returned value or the raised error
    pre                         \* the module state the call started from

vars == <<student_obs_normalization, teacher_obs_normalization, noise_std_type,
          params, training, loaded_teacher, distribution, call, ret, pre>>

----------------------------------------------------------------------------
(* Bounds of the model. *)

\* update_normalization is explored while the sample count is below this.
MaxCount == 2

\* Values of the tensors a checkpoint carries (0 is the constructed value).
CkptValues == {1}

\* Values of an observation tensor.
ObsValues == {1}

----------------------------------------------------------------------------
(* Parameter names as text. *)

c_actor   == <<"a","c","t","o","r">>
c_student == <<"s","t","u","d","e","n","t">>
c_teacher == <<"t","e","a","c","h","e","r">>
c_norm    == <<"_","o","b","s","_","n","o","r","m","a","l","i","z","e","r">>
c_dot     == <<".">>
c_weight  == <<"0",".","w","e","i","g","h","t">>
c_mean    == <<"_","m","e","a","n">>
c_count   == <<"c","o","u","n","t">>
c_std     == <<"s","t","d">>
c_log     == <<"l","o","g","_">>

\* Every name the model handles: checkpoint keys, sub-module keys, the
\* substrings and prefixes the code looks for, and the empty prefix.
Names ==
    { "std", "log_std",
      "student.0.weight", "student_obs_normalizer._mean", "student_obs_normalizer.count",
      "teacher.0.weight", "teacher_obs_normalizer._mean", "teacher_obs_normalizer.count",
      "actor.0.weight", "actor_obs_normalizer._mean", "actor_obs_normalizer.count",
      "0.weight", "_mean", "count",
      "actor", "student", "actor.", "actor_obs_normalizer.",
      "student.", "student_obs_normalizer.", "teacher.", "teacher_obs_normalizer.", "" }

Chars ==
    [n \in Names |->
        CASE n = "std" -> c_std
          [] n = "log_std" -> c_log \o c_std
          [] n = "student.0.weight" -> c_student \o c_dot \o c_weight
          [] n = "student_obs_normalizer._mean" -> c_student \o c_norm \o c_dot \o c_mean
          [] n = "student_obs_normalizer.count" -> c_student \o c_norm \o c_dot \o c_count
          [] n = "teacher.0.weight" -> c_teacher \o c_dot \o c_weight
          [] n = "teacher_obs_normalizer._mean" -> c_teacher \o c_norm \o c_dot \o c_mean
          [] n = "teacher_obs_normalizer.count" -> c_teacher \o c_norm \o c_dot \o c_count
          [] n = "actor.0.weight" -> c_actor \o c_dot \o c_weight
          [] n = "actor_obs_normalizer._mean" -> c_actor \o c_norm \o c_dot \o c_mean
          [] n = "actor_obs_normalizer.count" -> c_actor \o c_norm \o c_dot \o c_count
          [] n = "0.weight" -> c_weight
          [] n = "_mean" -> c_mean
          [] n = "count" -> c_count
          [] n = "actor" -> c_actor
          [] n = "student" -> c_student
          [] n = "actor." -> c_actor \o c_dot
          [] n = "actor_obs_normalizer." -> c_actor \o c_norm \o c_dot
          [] n = "student." -> c_student \o c_dot
          [] n = "student_obs_normalizer." -> c_student \o c_norm \o c_dot
          [] n = "teacher." -> c_teacher \o c_dot
          [] n = "teacher_obs_normalizer." -> c_teacher \o c_norm \o c_dot
          [] n = "" -> << >>]

\* The name whose text is s.
NameOf(s) == CHOOSE n \in Names : Chars[n] = s

\* Python `sub in s` on strings.
StrContains(s, sub) ==
    \E i \in 0..(Len(s) - Len(sub)) : SubSeq(s, i + 1, i + Len(sub)) = sub

\* Python s.startswith(p).
StrStartsWith(s, p) == Len(p) <= Len(s) /\ SubSeq(s, 1, Len(p)) = p

\* Python s.replace(old, ""): every non-overlapping occurrence, left to right.
RECURSIVE StrRemove(_, _)
StrRemove(s, old) ==
    IF Len(s) < Len(old) \/ Len(old) = 0 THEN s
    ELSE IF SubSeq(s, 1, Len(old)) = old
         THEN StrRemove(SubSeq(s, Len(old) + 1, Len(s)), old)
         ELSE <<s[1]>> \o StrRemove(Tail(s), old)

\* The names a state_dict passed to load_state_dict may use as keys.
CheckpointKeys ==
    { "std", "log_std",
      "student.0.weight", "student_obs_normalizer._mean", "student_obs_normalizer.count",
      "teacher.0.weight", "teacher_obs_normalizer._mean", "teacher_obs_normalizer.count",
      "actor.0.weight", "actor_obs_normalizer._mean", "actor_obs_normalizer.count" }

\* Substrings and prefixes load_state_dict looks for and removes.
Markers == { "actor", "student", "actor.", "actor_obs_normalizer." }

\* `marker in key`, tabulated.
KeyContains == [m \in Markers |-> {k \in CheckpointKeys : StrContains(Chars[k], Chars[m])}]

\* key.replace(marker, ""), tabulated for the keys that contain the marker.
KeyReplace ==
    [m \in {"actor.", "actor_obs_normalizer."} |->
        [k \in KeyContains[m] |-> NameOf(StrRemove(Chars[k], Chars[m]))]]

----------------------------------------------------------------------------
(* The module's parameter set. *)

\* Keys of an MLP's state_dict (one linear layer's weight stands for the layers).
MLPKeys == {"0.weight"}

\* Keys of an EmpiricalNormalization's state_dict (its running statistics);
\* torch.nn.Identity has none.
EmpiricalNormalizationKeys == {"_mean", "count"}

\* prefix + key for a child module's key.
Qualified(prefix, keys) == {NameOf(Chars[prefix] \o Chars[k]) : k \in keys}

NoiseKey(type) == IF type = "scalar" THEN "std" ELSE "log_std"

StudentKeys == Qualified("student.", MLPKeys)
TeacherKeys == Qualified("teacher.", MLPKeys)
StudentNormalizerKeys(enabled) ==
    IF enabled THEN Qualified("student_obs_normalizer.", EmpiricalNormalizationKeys) ELSE {}
TeacherNormalizerKeys(enabled) ==
    IF enabled THEN Qualified("teacher_obs_normalizer.", EmpiricalNormalizationKeys) ELSE {}

\* Keys of StudentTeacher.state_dict() for a configuration.
ModuleKeys(snorm, tnorm, type) ==
    {NoiseKey(type)} \cup StudentKeys \cup StudentNormalizerKeys(snorm)
      \cup TeacherKeys \cup TeacherNormalizerKeys(tnorm)

Children == {"student", "student_obs_normalizer", "teacher", "teacher_obs_normalizer"}
Modules == {"self"} \cup Children

\* Child-module prefixes of the module ("" is the module itself).
Prefixes == {"", "student.", "student_obs_normalizer.", "teacher.", "teacher_obs_normalizer."}

AllModuleKeys == ModuleKeys(TRUE, TRUE, "scalar") \cup ModuleKeys(TRUE, TRUE, "log")

\* For each prefix, the module keys under it and their names inside the child.
LocalKey ==
    [pf \in Prefixes |->
        [k \in {k \in AllModuleKeys : StrStartsWith(Chars[k], Chars[pf])} |->
            NameOf(SubSeq(Chars[k], Len(Chars[pf]) + 1, Len(Chars[k])))]]

----------------------------------------------------------------------------
(* Collaborators: torch.nn.Module, MLP, EmpiricalNormalization. *)

\* nn.Module.load_state_dict(sd, strict) on the (child) module under prefix:
\* every own key found in sd is copied in place first; afterwards, when strict,
\* a missing or an unexpected key raises RuntimeError.  The copies stay.
ModuleLoad(p, prefix, sd, strict) ==
    LET own        == DOMAIN p \cap DOMAIN LocalKey[prefix]
        matched    == {k \in own : LocalKey[prefix][k] \in DOMAIN sd}
        missing    == own \ matched
        unexpected == (DOMAIN sd) \ {LocalKey[prefix][k] : k \in own}
    IN  [ params |-> [k \in DOMAIN p |->
                        IF k \in matched THEN sd[LocalKey[prefix][k]] ELSE p[k]],
          ok     |-> ~(strict /\ (missing # {} \/ unexpected # {})) ]

\* nn.Module.train(mode): the module and every child take the mode.
ModuleTrain(mode) == [m \in Modules |-> mode]

\* nn.Module.eval() on the named children.
ModuleEval(t, children) == [m \in DOMAIN t |-> IF m \in children THEN FALSE ELSE t[m]]

RECURSIVE SeqSum(_)
SeqSum(x) == IF x = << >> THEN 0 ELSE x[1] + SeqSum(Tail(x))

\* MLP.forward: the network's output for input x under its weight.
MLPForward(p, prefix, x) == p[NameOf(Chars[prefix] \o Chars["0.weight"])] * SeqSum(x)

\* The normalization slot's forward: Identity returns x; EmpiricalNormalization
\* standardises x with the running statistics and does not change them.
NormalizerForward(p, prefix, enabled, x) ==
    IF enabled
    THEN [i \in 1..Len(x) |-> x[i] - p[NameOf(Chars[prefix] \o Chars["_mean"])]]
    ELSE x

\* EmpiricalNormalization.update(x): folds the batch into the running
\* statistics (sample count and running mean); a normalizer in evaluation
\* mode is left as it is.
NormalizerUpdate(p, prefix, isTraining, x) ==
    LET kMean  == NameOf(Chars[prefix] \o Chars["_mean"])
        kCount == NameOf(Chars[prefix] \o Chars["count"])
        n      == p[kCount] + 1
    IN  IF ~isTraining THEN p
        ELSE [p EXCEPT ![kCount] = n,
                       ![kMean]  = p[kMean] + ((SeqSum(x) - p[kMean]) \div n)]

----------------------------------------------------------------------------
(* Inputs. *)

\* obs_groups: the observation groups routed to each role.
obs_groups == [policy |-> <<"policy">>, teacher |-> <<"teacher">>]

ObsGroupNames == {"policy", "teacher"}

\* Observation mappings handed to act / evaluate / update_normalization.
Observations == [ObsGroupNames -> ObsValues]

\* A checkpoint carries the tensors of a sub-module together.
KeyGroups ==
    { {"std"}, {"log_std"},
      {"student.0.weight"},
      {"student_obs_normalizer._mean", "student_obs_normalizer.count"},
      {"teacher.0.weight"},
      {"teacher_obs_normalizer._mean", "teacher_obs_normalizer.count"},
      {"actor.0.weight"},
      {"actor_obs_normalizer._mean", "actor_obs_normalizer.count"} }

\* The mappings handed to load_state_dict: any union of groups (the empty
\* mapping included), all tensors holding the checkpoint's value and having
\* the shape of the parameter they are copied to.
StateDicts ==
    UNION { [UNION gs -> {v}] : gs \in SUBSET KeyGroups, v \in CkptValues }

----------------------------------------------------------------------------
(* State. *)

NoDistribution == [set |-> FALSE, mean |-> 0, stddev |-> [fn |-> "none", arg |-> 0]]

NoCall == [op |-> "none"]

Snapshot ==
    [ params |-> params, training |-> training,
      loaded_teacher |-> loaded_teacher, distribution |-> distribution ]

Idle == call.op = "none"

ConfigUnchanged ==
    UNCHANGED <<student_obs_normalization, teacher_obs_normalization, noise_std_type>>

\* StudentTeacher.__init__
Init ==
    /\ student_obs_normalization \in BOOLEAN
    /\ teacher_obs_normalization \in BOOLEAN
    /\ noise_std_type \in {"scalar", "log"}
    /\ loaded_teacher = FALSE
    /\ params = [k \in ModuleKeys(student_obs_normalization,
                                  teacher_obs_normalization, noise_std_type) |-> 0]
    /\ training = ModuleEval(ModuleTrain(TRUE), {"teacher"})
    /\ distribution = NoDistribution
    /\ call = NoCall
    /\ ret = "None"
    /\ pre = [ params |-> params, training |-> training,
               loaded_teacher |-> loaded_teacher, distribution |-> distribution ]

----------------------------------------------------------------------------
(* Operations. *)

\* torch.cat of the listed groups' tensors along the feature axis.
Route(groups, obs) == [i \in 1..Len(groups) |-> obs[groups[i]]]

get_student_obs(obs) == Route(obs_groups.policy, obs)

get_teacher_obs(obs) == Route(obs_groups.teacher, obs)

\* Normalized student inputs handed to update_distribution directly.
StudentInputs == {<<v>> : v \in ObsValues}

\* The Normal(mean, std) of lines 111-120.  The mean is the student's output,
\* a new tensor.  In scalar mode std is self.std.expand_as(mean), a view of
\* the live parameter: the distribution keeps the view, not a copy, so a
\* later in-place change of self.std shows through it.  In log mode
\* torch.exp(self.log_std) is a new tensor, fixed when it is computed.
new_distribution(x) ==
    [ set    |-> TRUE,
      mean   |-> MLPForward(params, "student.", x),
      stddev |-> IF noise_std_type = "scalar"
                 THEN [fn |-> "view_of_std", arg |-> 0]
                 ELSE [fn |-> "exp", arg |-> params["log_std"]] ]

\* The properties action_mean and action_std read on a module state s with a
\* stored distribution.
action_mean(s) == s.distribution.mean

action_std(s) ==
    IF s.distribution.stddev.fn = "view_of_std"
    THEN [fn |-> "id", arg |-> s.params["std"]]
    ELSE s.distribution.stddev

update_distribution(x) ==
    /\ Idle
    /\ distribution' = new_distribution(x)
    /\ call' = [op |-> "update_distribution", x |-> x]
    /\ ret' = "None"
    /\ pre' = Snapshot
    /\ UNCHANGED <<params, training, loaded_teacher>>
    /\ ConfigUnchanged

\* forward raises NotImplementedError.
forward ==
    /\ Idle
    /\ call' = [op |-> "forward"]
    /\ ret' = "NotImplementedError"
    /\ pre' = Snapshot
    /\ UNCHANGED <<params, training, loaded_teacher, distribution>>
    /\ ConfigUnchanged

get_hidden_states ==
    /\ Idle
    /\ call' = [op |-> "get_hidden_states"]
    /\ ret' = "None"
    /\ pre' = Snapshot
    /\ UNCHANGED <<params, training, loaded_teacher, distribution>>
    /\ ConfigUnchanged

detach_hidden_states ==
    /\ Idle
    /\ call' = [op |-> "detach_hidden_states"]
    /\ ret' = "None"
    /\ pre' = Snapshot
    /\ UNCHANGED <<params, training, loaded_teacher, distribution>>
    /\ ConfigUnchanged

reset ==
    /\ Idle
    /\ call' = [op |-> "reset"]
    /\ ret' = "None"
    /\ pre' = Snapshot
    /\ UNCHANGED <<params, training, loaded_teacher, distribution>>
    /\ ConfigUnchanged

\* Faulty variant of act: the normalizer call also folds the observation into the
\* running statistics.
act_folding(obs) ==
    /\ Idle
    /\ distribution' = new_distribution(
            NormalizerForward(params, "student_obs_normalizer.",
                              student_obs_normalization, get_student_obs(obs)))
    /\ params' = IF student_obs_normalization
                 THEN NormalizerUpdate(params, "student_obs_normalizer.",
                                       training["student_obs_normalizer"],
                                       get_student_obs(obs))
                 ELSE params
    /\ call' = [op |-> "act", obs |-> obs]
    /\ ret' = "sample"
    /\ pre' = Snapshot
    /\ UNCHANGED <<training, loaded_teacher>>
    /\ ConfigUnchanged

act(obs) ==
    /\ Idle
    /\ distribution' = new_distribution(
            NormalizerForward(params, "student_obs_normalizer.",
                              student_obs_normalization, get_student_obs(obs)))
    /\ call' = [op |-> "act", obs |-> obs]
    /\ ret' = "sample"
    /\ pre' = Snapshot
    /\ UNCHANGED <<params, training, loaded_teacher>>
    /\ ConfigUnchanged

act_inference(obs) ==
    /\ Idle
    /\ call' = [op |-> "act_inference", obs |-> obs]
    /\ ret' = "mean"
    /\ pre' = Snapshot
    /\ UNCHANGED <<params, training, loaded_teacher, distribution>>
    /\ ConfigUnchanged

evaluate(obs) ==
    /\ Idle
    /\ call' = [op |-> "evaluate", obs |-> obs]
    /\ ret' = "teacher_output"
    /\ pre' = Snapshot
    /\ UNCHANGED <<params, training, loaded_teacher, distribution>>
    /\ ConfigUnchanged

\* Faulty variant of train: only the teacher approximator is put back into eval mode.
train_teacher_only(mode) ==
    /\ Idle
    /\ training' = ModuleEval(ModuleTrain(mode), {"teacher"})
    /\ call' = [op |-> "train", mode |-> mode]
    /\ ret' = "None"
    /\ pre' = Snapshot
    /\ UNCHANGED <<params, loaded_teacher, distribution>>
    /\ ConfigUnchanged

train(mode) ==
    /\ Idle
    /\ training' = ModuleEval(ModuleTrain(mode), {"teacher", "teacher_obs_normalizer"})
    /\ call' = [op |-> "train", mode |-> mode]
    /\ ret' = "None"
    /\ pre' = Snapshot
    /\ UNCHANGED <<params, loaded_teacher, distribution>>
    /\ ConfigUnchanged

\* Faulty variant of update_normalization: the teacher normalizer is updated as well.
update_normalization_both(obs) ==
    /\ Idle
    /\ LET s == IF student_obs_normalization
                THEN NormalizerUpdate(params, "student_obs_normalizer.",
                                      training["student_obs_normalizer"],
                                      get_student_obs(obs))
                ELSE params
       IN  /\ student_obs_normalization =>
                params["student_obs_normalizer.count"] < MaxCount
           /\ teacher_obs_normalization =>
                params["teacher_obs_normalizer.count"] < MaxCount
           /\ params' = IF teacher_obs_normalization
                        THEN NormalizerUpdate(s, "teacher_obs_normalizer.",
                                              training["teacher_obs_normalizer"],
                                              get_teacher_obs(obs))
                        ELSE s
    /\ call' = [op |-> "update_normalization", obs |-> obs]
    /\ ret' = "None"
    /\ pre' = Snapshot
    /\ UNCHANGED <<training, loaded_teacher, distribution>>
    /\ ConfigUnchanged

update_normalization(obs) ==
    /\ Idle
    /\ IF student_obs_normalization
       THEN /\ params["student_obs_normalizer.count"] < MaxCount
            /\ params' = NormalizerUpdate(params, "student_obs_normalizer.",
                                          training["student_obs_normalizer"],
                                          get_student_obs(obs))
       ELSE UNCHANGED params
    /\ call' = [op |-> "update_normalization", obs |-> obs]
    /\ ret' = "None"
    /\ pre' = Snapshot
    /\ UNCHANGED <<training, loaded_teacher, distribution>>
    /\ ConfigUnchanged

\* Faulty variant of Remapped: the matching keys are kept under their old names.
RemappedKeepsPrefix(state_dict, marker) ==
    [k \in DOMAIN state_dict \cap KeyContains[marker] |-> state_dict[k]]

\* The dict comprehension of lines 184-190 for one marker:
\* {key.replace(marker, ""): value for key, value in items if marker in key}.
Remapped(state_dict, marker) ==
    LET src == DOMAIN state_dict \cap KeyContains[marker]
    IN  [n \in {KeyReplace[marker][k] : k \in src} |->
            state_dict[CHOOSE k \in src : KeyReplace[marker][k] = n]]

\* any(marker in key for key in state_dict.keys())
AnyKeyContains(state_dict, marker) == DOMAIN state_dict \cap KeyContains[marker] # {}

\* Lines 183-197: the teacher approximator is loaded, then the teacher
\* normalizer; an error of either load leaves what was copied before it.
prior_policy_branch(state_dict, strict) ==
    LET t == ModuleLoad(params, "teacher.", Remapped(state_dict, "actor."), strict)
        n == ModuleLoad(t.params, "teacher_obs_normalizer.",
                        Remapped(state_dict, "actor_obs_normalizer."), strict)
    IN  IF ~t.ok
        THEN /\ params' = t.params
             /\ ret' = "RuntimeError"
             /\ UNCHANGED <<loaded_teacher, training>>
        ELSE IF ~n.ok
        THEN /\ params' = n.params
             /\ ret' = "RuntimeError"
             /\ UNCHANGED <<loaded_teacher, training>>
        ELSE /\ params' = n.params
             /\ loaded_teacher' = TRUE
             /\ training' = ModuleEval(training, {"teacher", "teacher_obs_normalizer"})
             /\ ret' = "False"

\* Faulty variant of distillation_branch: the mapping is loaded into the student only.
distillation_branch_student_only(state_dict, strict) ==
    LET m == ModuleLoad(params, "student.", state_dict, strict)
    IN  IF ~m.ok
        THEN /\ params' = m.params
             /\ ret' = "RuntimeError"
             /\ UNCHANGED <<loaded_teacher, training>>
        ELSE /\ params' = m.params
             /\ loaded_teacher' = TRUE
             /\ training' = ModuleEval(training, {"teacher", "teacher_obs_normalizer"})
             /\ ret' = "True"

\* Lines 199-204: the whole mapping is loaded onto the whole module.
distillation_branch(state_dict, strict) ==
    LET m == ModuleLoad(params, "", state_dict, strict)
    IN  IF ~m.ok
        THEN /\ params' = m.params
             /\ ret' = "RuntimeError"
             /\ UNCHANGED <<loaded_teacher, training>>
        ELSE /\ params' = m.params
             /\ loaded_teacher' = TRUE
             /\ training' = ModuleEval(training, {"teacher", "teacher_obs_normalizer"})
             /\ ret' = "True"

\* Faulty variant of reject_branch: an unclassified mapping is loaded like a
\* distillation checkpoint.
reject_branch_loads(state_dict, strict) == distillation_branch(state_dict, strict)

\* Line 206: raise ValueError.
reject_branch(state_dict, strict) ==
    /\ ret' = "ValueError"
    /\ UNCHANGED <<params, loaded_teacher, training>>

\* Faulty variant of load_state_dict: the "student" test comes first.
load_state_dict_student_first(state_dict, strict) ==
    /\ Idle
    /\ call' = [op |-> "load_state_dict", state_dict |-> state_dict, strict |-> strict]
    /\ pre' = Snapshot
    /\ ConfigUnchanged
    /\ UNCHANGED distribution
    /\ IF AnyKeyContains(state_dict, "student")
       THEN distillation_branch(state_dict, strict)
       ELSE IF AnyKeyContains(state_dict, "actor")
       THEN prior_policy_branch(state_dict, strict)
       ELSE reject_branch(state_dict, strict)

load_state_dict(state_dict, strict) ==
    /\ Idle
    /\ call' = [op |-> "load_state_dict", state_dict |-> state_dict, strict |-> strict]
    /\ pre' = Snapshot
    /\ ConfigUnchanged
    /\ UNCHANGED distribution
    /\ IF AnyKeyContains(state_dict, "actor")
       THEN prior_policy_branch(state_dict, strict)
       ELSE IF AnyKeyContains(state_dict, "student")
       THEN distillation_branch(state_dict, strict)
       ELSE reject_branch(state_dict, strict)

\* The caller takes the outcome; the module is idle again.
Return ==
    /\ ~Idle
    /\ call' = NoCall
    /\ ret' = "None"
    /\ pre' = Snapshot
    /\ UNCHANGED <<params, training, loaded_teacher, distribution>>
    /\ ConfigUnchanged

Next ==
    \/ reset
    \/ forward
    \/ get_hidden_states
    \/ detach_hidden_states
    \/ \E x \in StudentInputs : update_distribution(x)
    \/ \E obs \in Observations : act(obs)
    \/ \E obs \in Observations : act_inference(obs)
    \/ \E obs \in Observations : evaluate(obs)
    \/ \E mode \in BOOLEAN : train(mode)
    \/ \E obs \in Observations : update_normalization(obs)
    \/ \E state_dict \in StateDicts, strict \in BOOLEAN : load_state_dict(state_dict, strict)
    \/ Return

Spec == Init /\ [][Next]_vars

----------------------------------------------------------------------------
(* Properties. *)

\* The module's parameters on the teacher side (approximator and normalizer)
\* and on the student side (approximator, normalizer, noise parameter).
TeacherSide == DOMAIN params \cap (DOMAIN LocalKey["teacher."]
                                    \cup DOMAIN LocalKey["teacher_obs_normalizer."])
StudentSide == DOMAIN params \ TeacherSide
StudentStatistics == DOMAIN params \cap DOMAIN LocalKey["student_obs_normalizer."]

\* Checkpoint keys that start with a prefix.
KeysWithPrefix ==
    [pf \in {"actor.", "actor_obs_normalizer.", "student."} |->
        {k \in CheckpointKeys : StrStartsWith(Chars[k], Chars[pf])}]

\* The teacher parameter an actor-checkpoint key stands for: actor.<x> is
\* teacher.<x>, actor_obs_normalizer.<x> is teacher_obs_normalizer.<x>.
TeacherNameFor ==
    [k \in KeysWithPrefix["actor."] \cup KeysWithPrefix["actor_obs_normalizer."] |->
        IF k \in KeysWithPrefix["actor."]
        THEN NameOf(Chars["teacher."]
                    \o SubSeq(Chars[k], Len(Chars["actor."]) + 1, Len(Chars[k])))
        ELSE NameOf(Chars["teacher_obs_normalizer."]
                    \o SubSeq(Chars[k], Len(Chars["actor_obs_normalizer."]) + 1, Len(Chars[k])))]

Raised == ret \in {"RuntimeError", "ValueError"}

\* C1: a load_state_dict call is classified by first match: with a key that
\* contains "actor" it never returns True nor raises the classification error,
\* and no student-side parameter is loaded even if the mapping names one; the
\* value returned is False exactly for such mappings; without such a key and
\* with a key that contains "student" the value returned is True.
C1_ClassificationDecidesReturn ==
    call.op = "load_state_dict" =>
        LET sd      == call.state_dict
            actor   == \E k \in DOMAIN sd : k \in KeyContains["actor"]
            student == \E k \in DOMAIN sd : k \in KeyContains["student"]
        IN  /\ actor => /\ ret \in {"False", "RuntimeError"}
                        /\ \A k \in StudentSide : params[k] = pre.params[k]
            /\ (~actor /\ student) => ret \in {"True", "RuntimeError"}
            /\ ret = "False" => actor
            /\ ret = "True" => (~actor /\ student)

\* C1 witness: a mapping with both an actor key and a student key returned
\* False and the student parameter it names was not loaded.
C1_Witness ==
    /\ call.op = "load_state_dict"
    /\ ret = "False"
    /\ \E k \in DOMAIN call.state_dict : k \in KeyContains["actor"]
    /\ \E k \in DOMAIN call.state_dict \cap StudentSide :
            /\ k \in KeyContains["student"]
            /\ params[k] # call.state_dict[k]

\* C2: a load of a mapping with actor. / actor_obs_normalizer. keys that does
\* not raise returns False, sets loaded_teacher, leaves every student-side
\* parameter as it was, and every teacher parameter the mapping supplies
\* (under the de-prefixed key) holds the supplied value.
C2_PriorPolicyLoad ==
    ( /\ call.op = "load_state_dict"
      /\ DOMAIN call.state_dict \cap DOMAIN TeacherNameFor # {}
      /\ ~Raised ) =>
        /\ ret = "False"
        /\ loaded_teacher
        /\ \A k \in StudentSide : params[k] = pre.params[k]
        /\ \A k \in DOMAIN call.state_dict \cap DOMAIN TeacherNameFor :
                TeacherNameFor[k] \in DOMAIN params =>
                    params[TeacherNameFor[k]] = call.state_dict[k]

\* C2 witness: a strict prior-policy load with approximator and normalizer
\* keys replaced the teacher's constructed values, the flag was false before.
C2_Witness ==
    /\ call.op = "load_state_dict"
    /\ call.strict
    /\ ret = "False"
    /\ teacher_obs_normalization
    /\ ~pre.loaded_teacher
    /\ KeysWithPrefix["actor."] \cup KeysWithPrefix["actor_obs_normalizer."]
            \subseteq DOMAIN call.state_dict
    /\ \A k \in TeacherSide : pre.params[k] = 0 /\ params[k] \in CkptValues

\* C3 as stated: every mapping with a student.-prefixed key and no "actor"
\* key, for either strict, returns True, sets loaded_teacher and leaves the
\* whole parameter set at the checkpoint's values.
C3_AlwaysRestoresEverything ==
    ( /\ call.op = "load_state_dict"
      /\ DOMAIN call.state_dict \cap KeysWithPrefix["student."] # {}
      /\ DOMAIN call.state_dict \cap KeyContains["actor"] = {} ) =>
        /\ ret = "True"
        /\ loaded_teacher
        /\ \A k \in DOMAIN params :
                k \in DOMAIN call.state_dict /\ params[k] = call.state_dict[k]

\* C3 amended: for such a mapping a call that does not raise returns True and
\* sets loaded_teacher; the parameters the mapping names hold the checkpoint's
\* values and the others keep theirs; with strict the mapping names exactly the
\* module's parameters, so the whole set is restored, and a strict call with
\* any other key set raises.
C3_DistillationLoad ==
    ( /\ call.op = "load_state_dict"
      /\ DOMAIN call.state_dict \cap KeysWithPrefix["student."] # {}
      /\ DOMAIN call.state_dict \cap KeyContains["actor"] = {} ) =>
        /\ ~Raised =>
            /\ ret = "True"
            /\ loaded_teacher
            /\ \A k \in DOMAIN params :
                    IF k \in DOMAIN call.state_dict
                    THEN params[k] = call.state_dict[k]
                    ELSE params[k] = pre.params[k]
            /\ call.strict =>
                    \A k \in DOMAIN params :
                        k \in DOMAIN call.state_dict /\ params[k] = call.state_dict[k]
        /\ (call.strict /\ DOMAIN call.state_dict # DOMAIN params) => ret = "RuntimeError"

\* C3 witness: a strict distillation load on a module with both normalizers
\* returned True and turned every constructed value into the checkpoint's.
C3_Witness ==
    /\ call.op = "load_state_dict"
    /\ call.strict
    /\ ret = "True"
    /\ student_obs_normalization /\ teacher_obs_normalization
    /\ \A k \in DOMAIN params : pre.params[k] = 0 /\ params[k] = call.state_dict[k]

\* C4: a mapping without an "actor" key and without a "student" key raises
\* the classification error and the module state is what it was.
C4_RejectLeavesStateUnchanged ==
    ( /\ call.op = "load_state_dict"
      /\ DOMAIN call.state_dict \cap KeyContains["actor"] = {}
      /\ DOMAIN call.state_dict \cap KeyContains["student"] = {} ) =>
        /\ ret = "ValueError"
        /\ params = pre.params
        /\ training = pre.training
        /\ loaded_teacher = pre.loaded_teacher
        /\ distribution = pre.distribution
        /\ distribution.set =>
                /\ action_mean(Snapshot) = action_mean(pre)
                /\ action_std(Snapshot) = action_std(pre)

\* C4 witness: a non-empty unclassified mapping that names a parameter of the
\* module with another value was rejected, with a distribution stored.
C4_Witness ==
    /\ call.op = "load_state_dict"
    /\ ret = "ValueError"
    /\ distribution.set
    /\ ~call.strict
    /\ \E k \in DOMAIN call.state_dict \cap DOMAIN params :
            params[k] # call.state_dict[k]

\* C5: a load_state_dict call that raises has changed no parameter and no
\* normalizer statistic, and loaded_teacher is what it was.
C5_RaiseChangesNothing ==
    (call.op = "load_state_dict" /\ Raised) =>
        /\ params = pre.params
        /\ loaded_teacher = pre.loaded_teacher

\* C6: after train(mode) the teacher approximator and the teacher normalizer
\* are in evaluation mode and the student sub-tree is in the requested mode.
C6_TrainKeepsTeacherInEval ==
    call.op = "train" =>
        /\ ~training["teacher"]
        /\ ~training["teacher_obs_normalizer"]
        /\ training["self"] = call.mode
        /\ training["student"] = call.mode
        /\ training["student_obs_normalizer"] = call.mode

\* C6 witness: train(True) after the module had been switched to evaluation.
C6_Witness ==
    /\ call.op = "train"
    /\ call.mode
    /\ ~pre.training["student"]
    /\ training["student"]
    /\ ~training["teacher_obs_normalizer"]

\* C7: loaded_teacher is true only when a load has populated the teacher
\* approximator: the flag is never true with the teacher at its constructed
\* values.
C7_FlagMeansTeacherPopulated ==
    loaded_teacher => \A k \in TeacherKeys : params[k] # 0

\* C8: act, act_inference, evaluate, update_normalization (and train, reset)
\* leave the teacher approximator parameters and the teacher normalizer
\* statistics as they were; only load_state_dict changes them.
C8_TeacherIsolation ==
    /\ call.op \in {"act", "act_inference", "evaluate", "update_normalization",
                    "train", "reset"} =>
            \A k \in TeacherSide : params[k] = pre.params[k]
    /\ (\E k \in TeacherSide : params[k] # pre.params[k]) => call.op = "load_state_dict"

\* C8 witness: update_normalization changed the student statistics of a
\* module whose teacher normalizer exists and is still in training mode.
C8_Witness ==
    /\ call.op = "update_normalization"
    /\ teacher_obs_normalization
    /\ training["teacher_obs_normalizer"]
    /\ \E k \in StudentStatistics : params[k] # pre.params[k]

\* C9: among act, act_inference, evaluate, train, reset and
\* update_normalization the student normalizer's statistics change only in an
\* update_normalization call with student normalization enabled, and
\* update_normalization changes nothing when it is disabled.
C9_StudentStatisticsOnlyByUpdate ==
    /\ ( /\ call.op \in {"act", "act_inference", "evaluate", "train", "reset",
                         "update_normalization"}
         /\ \E k \in StudentStatistics : params[k] # pre.params[k] ) =>
            (call.op = "update_normalization" /\ student_obs_normalization)
    /\ (call.op = "update_normalization" /\ ~student_obs_normalization) =>
            Snapshot = pre

\* C9 witness: act ran on a module with student normalization enabled, in
\* training mode, whose statistics an earlier update had already changed.
C9_Witness ==
    /\ call.op = "act"
    /\ student_obs_normalization
    /\ training["student_obs_normalizer"]
    /\ params["student_obs_normalizer.count"] > 0
    /\ params = pre.params

\* C10: in every reachable state the teacher approximator and the teacher
\* normalizer are in evaluation mode.
C10_TeacherSideAlwaysEval ==
    ~training["teacher"] /\ ~training["teacher_obs_normalizer"]

====
